---- MODULE Spec2Model ----
(***************************************************************************)
(* A model of gh-contribution-histogram-action:                            *)
(*   - gh-contribution-graph-generator.py: the target loop, the paginated  *)
(*     fetch (fetch_prs_with_cursor / run_graphql_query), get_month_year    *)
(*     and the pandas aggregation of generate_contribution_histogram;      *)
(*   - target_parser.py: parse_targets, on character sequences;            *)
(*   - themes.py: get_themes and its cache file.                           *)
(* Strings are sequences of one-character strings, so that splitting,      *)
(* stripping and counting are computed as the code computes them.          *)
(***************************************************************************)
EXTENDS Integers, Sequences, FiniteSets, TLC

\* ------------------------------------------------------------------ bounds
\* Most pages one fetch is served before the server must end the listing.
MaxPages == 2
\* Most targets on the command line.
MaxTargets == 2
\* Most records in the authored / reviewed lists handed to the aggregation.
MaxDates == 2
\* Most pieces (descriptors and separators) the parser's input is built from.
MaxPieces == 3
\* Most get_themes calls in one cache lifetime.
MaxCalls == 4

\* ------------------------------------------------------- generic helpers
RECURSIVE Flatten(_)
\* The concatenation of a sequence of sequences.
Flatten(ss) == IF ss = <<>> THEN <<>> ELSE Head(ss) \o Flatten(Tail(ss))

\* The sequences over S of length lo..hi.
SeqsOf(S, lo, hi) == UNION {[1..n -> S] : n \in lo..hi}

Range(s) == {s[i] : i \in 1..Len(s)}

\* ------------------------------------------------------------ timestamps
\* A createdAt string "YYYY-MM-DDTHH:MM:SS<zone>": the year and month as
\* written, whether the date-time part is complete, and the zone suffix as
\* the characters that follow the seconds.
Digits == {"0", "1", "2", "3", "4", "5", "6", "7", "8", "9"}

ZoneZ == <<"Z">>
ZonePlusColon == <<"+", "0", "5", ":", "3", "0">>
ZoneMinusColon == <<"-", "0", "5", ":", "0", "0">>
ZonePlusSeconds == <<"+", "0", "5", ":", "3", "0", ":", "1", "5">>
ZoneMinusPlain == <<"-", "0", "8", "0", "0">>
ZoneNone == <<>>
ZoneBarePlus == <<"+">>

Zones == {ZoneZ, ZonePlusColon, ZoneMinusColon, ZonePlusSeconds, ZoneMinusPlain,
          ZoneNone, ZoneBarePlus}

Years == {2023, 2024}
Months == {1, 2, 3, 12}

Stamp(y, m, body, zone) == [y |-> y, m |-> m, body |-> body, zone |-> zone]

AllStamps == {Stamp(y, m, b, z) : y \in Years, m \in Months,
                                  b \in {"datetime", "date"}, z \in Zones}

\* The two forms the data model accepts: ...SS+HH:MM / ...SS-HH:MM and ...SSZ.
IsOffsetForm(ts) ==
    /\ ts.body = "datetime"
    /\ Len(ts.zone) = 6
    /\ ts.zone[1] \in {"+", "-"}
    /\ ts.zone[2] \in Digits /\ ts.zone[3] \in Digits
    /\ ts.zone[4] = ":"
    /\ ts.zone[5] \in Digits /\ ts.zone[6] \in Digits

IsZForm(ts) == ts.body = "datetime" /\ ts.zone = ZoneZ

\* "+" in date_str: the date-time part holds digits, "-", ":" and "T" only.
HasPlus(ts) == \E i \in 1..Len(ts.zone) : ts.zone[i] = "+"

Sixties == {"0", "1", "2", "3", "4", "5"}

\* strptime's %z: Z, or a sign and HHMM, HH:MM or HH:MM:SS.
MatchesPercentZ(zone) ==
    \/ zone = ZoneZ
    \/ /\ Len(zone) = 5
       /\ zone[1] \in {"+", "-"}
       /\ zone[2] \in Digits /\ zone[3] \in Digits
       /\ zone[4] \in Sixties /\ zone[5] \in Digits
    \/ /\ Len(zone) \in {6, 9}
       /\ zone[1] \in {"+", "-"}
       /\ zone[2] \in Digits /\ zone[3] \in Digits
       /\ zone[4] = ":"
       /\ zone[5] \in Sixties /\ zone[6] \in Digits
       /\ Len(zone) = 9 => /\ zone[7] = ":"
                           /\ zone[8] \in Sixties /\ zone[9] \in Digits

\* date.strftime("%Y-%m"): the month key, year and month as written.
MonthKey(y, m) == [ok |-> TRUE, key |-> <<y, m>>]

\* strptime raising ValueError (the timestamp parse error).
ParseError == [ok |-> FALSE, key |-> <<0, 0>>]

\* Lines 49-55.
get_month_year(ts) ==
    IF HasPlus(ts)
    THEN IF ts.body = "datetime" /\ MatchesPercentZ(ts.zone)
         THEN MonthKey(ts.y, ts.m)
         ELSE ParseError
    ELSE IF ts.body = "datetime" /\ ts.zone = ZoneZ
         THEN MonthKey(ts.y, ts.m)
         ELSE ParseError

\* ----------------------------------------------------------- aggregation
\* Month keys are the strings "YYYY-MM"; with four-digit years their string
\* order is the order of the (year, month) pairs.
KeyLess(a, b) == a[1] < b[1] \/ (a[1] = b[1] /\ a[2] < b[2])

RECURSIVE SortKeys(_)
\* The keys of a set in ascending string order (groupby sorts its groups).
SortKeys(S) ==
    IF S = {} THEN <<>>
    ELSE LET k == CHOOSE x \in S : \A y \in S : x = y \/ KeyLess(x, y)
         IN <<k>> \o SortKeys(S \ {k})

CountOf(dates, k) == Cardinality({i \in 1..Len(dates) : dates[i] = k})

\* pd.DataFrame(dates, columns=["month"]).groupby("month").size().reset_index():
\* one row per distinct month, in key order, with the number of records.
groupby_size(dates) ==
    LET keys == SortKeys(Range(dates))
    IN [i \in 1..Len(keys) |-> [month |-> keys[i], n |-> CountOf(dates, keys[i])]]

\* The missing value an outer merge leaves where one side has no row.
NaN == -1

RowOf(df, k) == CHOOSE r \in Range(df) : r.month = k

SideCount(df, k) ==
    IF \E r \in Range(df) : r.month = k THEN RowOf(df, k).n ELSE NaN

\* The rows of right whose month has no row in left, in right's order.
RightOnly(left, right) ==
    SelectSeq(right, LAMBDA r : \A l \in Range(left) : l.month # r.month)

\* how="inner" in place of how="outer": the months of both frames only.
merge_inner(left, right) ==
    LET both == SelectSeq(left, LAMBDA l : \E r \in Range(right) : r.month = l.month)
    IN [i \in 1..Len(both) |->
           [month |-> both[i].month, authored_count |-> both[i].n,
            reviewed_count |-> SideCount(right, both[i].month)]]

\* pd.merge(authored_df, reviewed_df, on="month", how="outer"): every month of
\* either frame once; the left frame's months first, then the months only the
\* right frame has (newer pandas already sorts them; sort_values follows).
merge_outer(left, right) ==
    LET extra == RightOnly(left, right)
    IN [i \in 1..Len(left) |->
           [month |-> left[i].month, authored_count |-> left[i].n,
            reviewed_count |-> SideCount(right, left[i].month)]]
       \o
       [i \in 1..Len(extra) |->
           [month |-> extra[i].month, authored_count |-> NaN,
            reviewed_count |-> extra[i].n]]

FillZero(v) == IF v = NaN THEN 0 ELSE v

\* .fillna(0)
fillna(df) ==
    [i \in 1..Len(df) |->
        [month |-> df[i].month, authored_count |-> FillZero(df[i].authored_count),
         reviewed_count |-> FillZero(df[i].reviewed_count)]]

\* pd.to_datetime(key, format="%Y-%m"): the first day of the month, as the
\* number of months since year 0.
to_datetime(key) == key[1] * 12 + (key[2] - 1)

\* dt.strftime("%Y-%m") of such a date.
strftime_month(d) == <<d \div 12, (d % 12) + 1>>

convert_month(df) ==
    [i \in 1..Len(df) |->
        [month |-> to_datetime(df[i].month), authored_count |-> df[i].authored_count,
         reviewed_count |-> df[i].reviewed_count]]

RECURSIVE InsertRow(_, _)
InsertRow(sorted, r) ==
    IF sorted = <<>> THEN <<r>>
    ELSE IF r.month < Head(sorted).month THEN <<r>> \o sorted
    ELSE <<Head(sorted)>> \o InsertRow(Tail(sorted), r)

RECURSIVE SortRows(_)
SortRows(df) ==
    IF df = <<>> THEN <<>> ELSE InsertRow(SortRows(Tail(df)), Head(df))

\* The merge without line 145.
sort_values_skipped(df) == df

\* merged_df.sort_values("month")
sort_values(df) == SortRows(df)

\* Lines 128-145: the merged series of two month-key lists.
MergedSeries(authored, reviewed) ==
    sort_values(convert_month(fillna(
        merge_outer(groupby_size(authored), groupby_size(reviewed)))))

\* ------------------------------------------------------- pipeline: state
VARIABLES
    parsed_targets,   \* the (username, repo_owner, repo_name) list, line 242
    ti,               \* how many targets the loop of line 255 has started
    pc,               \* where the run is
    token,            \* whether GITHUB_TOKEN is set
    phase,            \* which of the two fetches of a target is running
    cursor_var,       \* variables["cursor"] of the request in flight
    prs,              \* fetch_prs_with_cursor's accumulated list
    has_next_page,
    end_cursor,
    authored_dates,
    reviewed_dates,
    merged,           \* merged_df, lines 143-145
    saved,            \* the artifact files written
    reported,         \* the "Error generating histogram for ..." lines printed
    sent,             \* history: the cursors of this fetch's requests
    recv,             \* history: the responses this fetch was served
    attempted,        \* history: the targets generate_... was called for
    rendered          \* history: the list positions whose artifact was saved

\* target_parser.py
VARIABLES
    pieces,           \* history: the pieces the input string was built from
    targets,          \* parse_targets' argument, a string
    parse_result      \* what the call returned or raised

\* themes.py
VARIABLES
    cache_file,       \* themes.json: absent, or its content
    fetches,          \* history: the requests.get calls made
    calls             \* history: what each get_themes call did and gave

\* get_month_year called on one string
VARIABLES
    date_str,
    month_year

parserVars == <<pieces, targets, parse_result>>
themeVars == <<cache_file, fetches, calls>>
stampVars == <<date_str, month_year>>

pipeVars == <<parsed_targets, ti, pc, token, phase, cursor_var, prs,
              has_next_page, end_cursor, authored_dates, reviewed_dates,
              merged, saved, reported, sent, recv, attempted, rendered>>

Target(u, o, r) == [username |-> u, repo_owner |-> o, repo_name |-> r]

Targets == {Target("alice", "apache", "ozone"), Target("bob", "apache", "ozone")}

\* The createdAt values the server's pages hold: the Z form, a positive and
\* a negative offset.
StampZ == Stamp(2024, 1, "datetime", ZoneZ)
StampPlus == Stamp(2023, 12, "datetime", ZonePlusColon)
StampMinus == Stamp(2024, 3, "datetime", ZoneMinusColon)

\* The edge lists a page may carry.
PageBodies == {<<>>, <<StampZ>>, <<StampPlus, StampZ>>, <<StampMinus>>}

\* end_cursor = None
Null == "None"
Cursors == {"Y3Vyc29yOjE=", "Y3Vyc29yOjI="}


\* A history of at most MaxPages entries.
Record(log, e) == IF Len(log) < MaxPages THEN Append(log, e) ELSE log

Page(body, more, cur) ==
    [kind |-> "page", nodes |-> body, hasNextPage |-> more, endCursor |-> cur]

Failure(kind) ==
    [kind |-> kind, nodes |-> <<>>, hasNextPage |-> FALSE, endCursor |-> Null]

CurrentTarget == parsed_targets[ti]

\* output_path / f"{username}-{repo_owner}-{repo_name}-contribution-histogram.png"
output_filename(t) == <<t.username, t.repo_owner, t.repo_name>>

\* Lines 260-264: the handler of the target loop prints the target and the
\* error, then leaves the process with sys.exit(1).
ExitOnError(kind) ==
    /\ reported' = Append(reported, [username |-> CurrentTarget.username,
                                     repo_owner |-> CurrentTarget.repo_owner,
                                     repo_name |-> CurrentTarget.repo_name,
                                     error |-> kind])
    /\ pc' = "exited"

\* end_cursor kept from the fetch before (line 60 left out).
BeginFetch_keeps_cursor(which) ==
    /\ phase' = which
    /\ prs' = <<>>
    /\ has_next_page' = TRUE
    /\ end_cursor' = end_cursor
    /\ cursor_var' = Null
    /\ sent' = <<>>
    /\ recv' = <<>>
    /\ pc' = "request"

\* The locals of fetch_prs_with_cursor, lines 58-60.
BeginFetch(which) ==
    /\ phase' = which
    /\ prs' = <<>>
    /\ has_next_page' = TRUE
    /\ end_cursor' = Null
    /\ cursor_var' = Null
    /\ sent' = <<>>
    /\ recv' = <<>>
    /\ pc' = "request"

\* The script not running.
PipeIdle ==
    /\ parsed_targets = <<>>
    /\ ti = 0
    /\ pc = "idle"
    /\ token = TRUE
    /\ phase = "none"
    /\ cursor_var = Null
    /\ prs = <<>>
    /\ has_next_page = FALSE
    /\ end_cursor = Null
    /\ authored_dates = <<>>
    /\ reviewed_dates = <<>>
    /\ merged = <<>>
    /\ saved = {}
    /\ reported = <<>>
    /\ sent = <<>>
    /\ recv = <<>>
    /\ attempted = {}
    /\ rendered = {}

PipeInit ==
    /\ parsed_targets \in SeqsOf(Targets, 1, MaxTargets)
    /\ ti = 0
    /\ pc = "loop"
    /\ token \in BOOLEAN
    /\ phase = "none"
    /\ cursor_var = Null
    /\ prs = <<>>
    /\ has_next_page = FALSE
    /\ end_cursor = Null
    /\ authored_dates = <<>>
    /\ reviewed_dates = <<>>
    /\ merged = <<>>
    /\ saved = {}
    /\ reported = <<>>
    /\ sent = <<>>
    /\ recv = <<>>
    /\ attempted = {}
    /\ rendered = {}


\* ----------------------------------------------------- pipeline: actions
\* Line 255-259 and 26-37, 105-112: the loop takes the next target and calls
\* generate_contribution_histogram, which checks the token and starts the
\* authored fetch.
StartTarget ==
    /\ pc = "loop"
    /\ ti < Len(parsed_targets)
    /\ ti' = ti + 1
    /\ attempted' = attempted \cup {ti + 1}
    /\ IF token
       THEN /\ BeginFetch("authored")
            /\ UNCHANGED reported
       ELSE /\ reported' = Append(reported,
                               [username |-> parsed_targets[ti + 1].username,
                                repo_owner |-> parsed_targets[ti + 1].repo_owner,
                                repo_name |-> parsed_targets[ti + 1].repo_name,
                                error |-> "config"])
            /\ pc' = "exited"
            /\ UNCHANGED <<phase, prs, has_next_page, end_cursor, cursor_var,
                           sent, recv>>
    /\ UNCHANGED <<merged, parsed_targets, token, authored_dates,
                   reviewed_dates, saved, rendered>>
    /\ UNCHANGED <<parserVars, themeVars, stampVars>>

\* Lines 63-65 and 40-44: the loop test, the cursor put into the variables,
\* the request posted.
SendRequest ==
    /\ pc = "request"
    /\ has_next_page
    /\ cursor_var' = end_cursor
    /\ sent' = Record(sent, end_cursor)
    /\ pc' = "await"
    /\ UNCHANGED <<merged, parsed_targets, ti, token, phase, prs, has_next_page,
                   end_cursor, authored_dates, reviewed_dates, saved, reported,
                   recv, attempted, rendered>>
    /\ UNCHANGED <<parserVars, themeVars, stampVars>>

\* Line 71 putting a page's nodes in front of the list.
TakePage_prepend(body, more, cur) ==
    /\ prs' = body \o prs
    /\ has_next_page' = more
    /\ end_cursor' = cur
    /\ recv' = Record(recv, Page(body, more, cur))
    /\ pc' = IF more THEN "request" ELSE "fetched"
    /\ UNCHANGED <<merged, parsed_targets, ti, token, phase, cursor_var, authored_dates,
                   reviewed_dates, saved, reported, sent, attempted, rendered>>
    /\ UNCHANGED <<parserVars, themeVars, stampVars>>

\* Lines 45-47 and 67-79: a response with status 200 and no "errors": its
\* nodes are appended, the page info taken, and the loop test made again;
\* when hasNextPage is false the fetch returns prs.
TakePage(body, more, cur) ==
    /\ prs' = prs \o body
    /\ has_next_page' = more
    /\ end_cursor' = cur
    /\ recv' = Record(recv, Page(body, more, cur))
    /\ pc' = IF more THEN "request" ELSE "fetched"
    /\ UNCHANGED <<merged, parsed_targets, ti, token, phase, cursor_var, authored_dates,
                   reviewed_dates, saved, reported, sent, attempted, rendered>>
    /\ UNCHANGED <<parserVars, themeVars, stampVars>>

\* The server answers the request in flight with a page; it ends the listing
\* by its MaxPages-th page at the latest.
ServerPage ==
    /\ pc = "await"
    /\ \E body \in PageBodies, more \in BOOLEAN, cur \in Cursors \cup {Null} :
          /\ more => Len(recv) + 1 < MaxPages
          /\ TakePage(body, more, cur)

\* A failed request ending the loop with the records fetched so far returned.
RaiseFromFetch_returns_partial(kind) ==
    /\ recv' = Record(recv, Failure(kind))
    /\ has_next_page' = FALSE
    /\ pc' = "fetched"
    /\ UNCHANGED <<merged, parsed_targets, ti, token, phase, cursor_var, prs,
                   end_cursor, authored_dates, reviewed_dates, saved, reported,
                   sent, attempted, rendered>>
    /\ UNCHANGED <<parserVars, themeVars, stampVars>>

\* Lines 45-46 (a status other than 200) and 67-68 ("errors" in the payload):
\* the exception leaves fetch_prs_with_cursor and generate_..., dropping prs.
RaiseFromFetch(kind) ==
    /\ recv' = Record(recv, Failure(kind))
    /\ prs' = <<>>
    /\ ExitOnError(kind)
    /\ UNCHANGED <<merged, parsed_targets, ti, token, phase, cursor_var, has_next_page,
                   end_cursor, authored_dates, reviewed_dates, saved, sent,
                   attempted, rendered>>
    /\ UNCHANGED <<parserVars, themeVars, stampVars>>

ServerFails ==
    /\ pc = "await"
    /\ \E kind \in {"status", "errors"} : RaiseFromFetch(kind)

\* Lines 113 and 126: the list comprehension over the fetched records.
MonthsOf(records) == [i \in 1..Len(records) |-> get_month_year(records[i])]

\* The locals of a finished fetch are not read again.
EndFetch ==
    /\ prs' = <<>>
    /\ has_next_page' = FALSE
    /\ end_cursor' = Null
    /\ cursor_var' = Null
    /\ sent' = <<>>
    /\ recv' = <<>>

\* Lines 110-126: after a fetch returns, its records are turned into month
\* keys; the authored list is followed by the reviewed fetch.
ConvertDates ==
    /\ pc = "fetched"
    /\ LET months == MonthsOf(prs)
       IN IF \E i \in 1..Len(months) : ~months[i].ok
          THEN /\ ExitOnError("timestamp")
               /\ UNCHANGED <<phase, prs, has_next_page, end_cursor, cursor_var,
                              sent, recv, authored_dates, reviewed_dates>>
          ELSE IF phase = "authored"
          THEN /\ authored_dates' = [i \in 1..Len(months) |-> months[i].key]
               /\ BeginFetch("reviewed")
               /\ UNCHANGED <<reviewed_dates, reported>>
          ELSE /\ reviewed_dates' = [i \in 1..Len(months) |-> months[i].key]
               /\ EndFetch
               /\ pc' = "aggregate"
               /\ UNCHANGED <<phase, authored_dates, reported>>
    /\ UNCHANGED <<merged, parsed_targets, ti, token, saved, attempted, rendered>>
    /\ UNCHANGED <<parserVars, themeVars, stampVars>>

\* Lines 128-145: the two month lists are counted, merged and sorted.
Aggregate ==
    /\ pc = "aggregate"
    /\ merged' = MergedSeries(authored_dates, reviewed_dates)
    /\ pc' = "render"
    /\ UNCHANGED <<parsed_targets, ti, token, phase, cursor_var, prs,
                   has_next_page, end_cursor, authored_dates, reviewed_dates,
                   saved, reported, sent, recv, attempted, rendered>>
    /\ UNCHANGED <<parserVars, themeVars, stampVars>>

\* Lines 147-200: the series is plotted and saved under the target's file
\* name; the call returns, its locals are gone, and the loop goes on.
RenderAndSave ==
    /\ pc = "render"
    /\ saved' = saved \cup {output_filename(CurrentTarget)}
    /\ rendered' = rendered \cup {ti}
    /\ authored_dates' = <<>>
    /\ reviewed_dates' = <<>>
    /\ merged' = <<>>
    /\ prs' = <<>>
    /\ phase' = "none"
    /\ pc' = "loop"
    /\ UNCHANGED <<parsed_targets, ti, token, cursor_var, has_next_page,
                   end_cursor, reported, sent, recv, attempted>>
    /\ UNCHANGED <<parserVars, themeVars, stampVars>>

\* Lines 148-199: the plotting library or the file system raises.
RenderFails ==
    /\ pc = "render"
    /\ ExitOnError("render")
    /\ UNCHANGED <<parsed_targets, ti, token, phase, cursor_var, prs,
                   has_next_page, end_cursor, authored_dates, reviewed_dates,
                   merged, saved, sent, recv, attempted, rendered>>
    /\ UNCHANGED <<parserVars, themeVars, stampVars>>

\* Line 255: the list is exhausted and the script ends.
Finish ==
    /\ pc = "loop"
    /\ ti = Len(parsed_targets)
    /\ pc' = "done"
    /\ UNCHANGED <<merged, parsed_targets, ti, token, phase, cursor_var, prs,
                   has_next_page, end_cursor, authored_dates, reviewed_dates,
                   saved, reported, sent, recv, attempted, rendered>>
    /\ UNCHANGED <<parserVars, themeVars, stampVars>>


\* ------------------------------------------------- target_parser: strings
\* str.isspace for the characters of the inputs.
Whitespace == {" ", "\t"}

\* s.count(c)
CountChar(s, c) == Cardinality({i \in 1..Len(s) : s[i] = c})

\* s.replace(a, b) for single characters.
ReplaceChar(s, a, b) == [i \in 1..Len(s) |-> IF s[i] = a THEN b ELSE s[i]]

RECURSIVE LStrip(_)
LStrip(s) == IF s # <<>> /\ Head(s) \in Whitespace THEN LStrip(Tail(s)) ELSE s

RECURSIVE RStrip(_)
RStrip(s) ==
    IF s # <<>> /\ s[Len(s)] \in Whitespace THEN RStrip(SubSeq(s, 1, Len(s) - 1)) ELSE s

\* s.strip()
Strip(s) == RStrip(LStrip(s))

\* The first position of c in s, or 0.
IndexOf(s, c) ==
    IF \E i \in 1..Len(s) : s[i] = c
    THEN CHOOSE i \in 1..Len(s) : s[i] = c /\ \A j \in 1..(i - 1) : s[j] # c
    ELSE 0

RECURSIVE SplitOn(_, _)
\* s.split(c): the parts between the occurrences of c, empty parts kept.
SplitOn(s, c) ==
    LET i == IndexOf(s, c)
    IN IF i = 0 THEN <<s>>
       ELSE <<SubSeq(s, 1, i - 1)>> \o SplitOn(SubSeq(s, i + 1, Len(s)), c)

\* The length of the run of non-whitespace characters s starts with.
RECURSIVE WordLen(_)
WordLen(s) == IF s = <<>> \/ Head(s) \in Whitespace THEN 0 ELSE 1 + WordLen(Tail(s))

RECURSIVE SplitWhitespace(_)
\* s.split(): the maximal runs of non-whitespace characters.
SplitWhitespace(s) ==
    LET t == LStrip(s)
    IN IF t = <<>> THEN <<>>
       ELSE <<SubSeq(t, 1, WordLen(t))>>
            \o SplitWhitespace(SubSeq(t, WordLen(t) + 1, Len(t)))

\* ---------------------------------------------- target_parser: exceptions
ValueError(head, text) == [head |-> head, text |-> text, target |-> <<>>, wrapped |-> FALSE]

NoError == [head |-> "", text |-> <<>>, target |-> <<>>, wrapped |-> FALSE]

NotEnough == "not enough values to unpack"
TooMany == "too many values to unpack"
InvalidRepo == "Invalid repository format"
InvalidTarget == "Invalid target format"
EmptyTargets == "Empty targets string"

Returned(list) == [raised |-> FALSE, value |-> list, exc |-> NoError]
Raised(e) == [raised |-> TRUE, value |-> <<>>, exc |-> e]
NotCalled == [raised |-> FALSE, value |-> <<>>, exc |-> ValueError("not called", <<>>)]

\* Line 33-35: repo_owner, repo_name = repo.split("/") and the emptiness test.
SplitRepo(repo) ==
    LET parts == SplitOn(repo, "/")
    IN IF Len(parts) < 2 THEN Raised(ValueError(NotEnough, <<>>))
       ELSE IF Len(parts) > 2 THEN Raised(ValueError(TooMany, <<>>))
       ELSE IF parts[1] = <<>> \/ parts[2] = <<>>
            THEN Raised(ValueError(InvalidRepo, repo))
       ELSE Returned(parts)

\* The handler without the translation of lines 37-38.
InnerExcept_reraise(e, repo) == Raised(e)

\* Lines 36-39: an unpack error becomes "Invalid repository format: {repo}",
\* any other ValueError is raised again.
InnerExcept(e, repo) ==
    IF e.head = NotEnough \/ e.head = TooMany
    THEN Raised(ValueError(InvalidRepo, repo))
    ELSE Raised(e)

\* Lines 42-45: "Invalid repository format" errors pass, any other ValueError
\* is wrapped as "Error parsing target '{target}': {e}. Expected format: ...".
OuterExcept(e, target) ==
    IF e.head = InvalidRepo
    THEN Raised(e)
    ELSE Raised([head |-> e.head, text |-> e.text, target |-> target, wrapped |-> TRUE])

\* Lines 25-41: one descriptor, to its (username, repo_owner, repo_name).
ParseOne(target) ==
    IF CountChar(target, "@") # 1
    THEN Raised(ValueError(InvalidRepo, target))
    ELSE LET halves == SplitOn(target, "@")
             username == halves[1]
             repo == halves[2]
         IN IF username = <<>> \/ repo = <<>>
            THEN OuterExcept(ValueError(InvalidTarget, target), target)
            ELSE LET sr == SplitRepo(repo)
                     inner == IF sr.raised THEN InnerExcept(sr.exc, repo) ELSE sr
                 IN IF inner.raised
                    THEN OuterExcept(inner.exc, target)
                    ELSE Returned(<<username, inner.value[1], inner.value[2]>>)

RECURSIVE ParseAll(_, _)
\* Lines 22-47: the loop over target_arr, appending to parsed_targets.
ParseAll(target_arr, parsed) ==
    IF target_arr = <<>> THEN Returned(parsed)
    ELSE LET one == ParseOne(Head(target_arr))
         IN IF one.raised THEN one
            ELSE ParseAll(Tail(target_arr), Append(parsed, one.value))

\* The split on spaces alone.
TargetArr_spaces_only(s) ==
    LET kept == SelectSeq(SplitOn(s, " "), LAMBDA t : Strip(t) # <<>>)
    IN [i \in 1..Len(kept) |-> Strip(kept[i])]

\* Line 21: [t.strip() for t in targets.replace(',', ' ').split() if t.strip()]
TargetArr(s) ==
    LET words == SplitWhitespace(ReplaceChar(s, ",", " "))
        kept == SelectSeq(words, LAMBDA t : Strip(t) # <<>>)
    IN [i \in 1..Len(kept) |-> Strip(kept[i])]

\* Lines 3-47.
parse_targets(s) ==
    IF s = <<>> \/ Strip(s) = <<>>
    THEN Raised(ValueError(EmptyTargets, <<>>))
    ELSE ParseAll(TargetArr(s), <<>>)


\* -------------------------------------------------- target_parser: inputs
\* The input string is put together from pieces: separators, descriptors
\* written from three fields (any of them possibly empty), and texts with a
\* missing or repeated delimiter.
Piece(kind, u, o, r, text) ==
    [kind |-> kind, username |-> u, repo_owner |-> o, repo_name |-> r, text |-> text]

Descriptor(u, o, r) == Piece("desc", u, o, r, u \o <<"@">> \o o \o <<"/">> \o r)

Separators == {Piece("sep", <<>>, <<>>, <<>>, <<c>>) : c \in {" ", ",", "\t"}}

Usernames == {<<>>, <<"a">>, <<"U", ".", "n">>}
Owners == {<<>>, <<"o", "-", "g">>}
RepoNames == {<<>>, <<"r">>, <<"R", "_", "n">>}

Descriptors == {Descriptor(u, o, r) : u \in Usernames, o \in Owners, r \in RepoNames}

OddTexts == {<<"a", "/", "o", "/", "r">>,            \* no "@"
             <<"a">>,                                \* no "@", no "/"
             <<"a", "@", "o", "@", "r">>,            \* two "@"
             <<"a", "@", "o", "r">>,                 \* no "/"
             <<"a", "@", "o", "/", "r", "/", "x">>}  \* two "/"

Odds == {Piece("odd", <<>>, <<>>, <<>>, t) : t \in OddTexts}

PieceSet == Separators \cup Descriptors \cup Odds

TextOf(ps) == Flatten([i \in 1..Len(ps) |-> ps[i].text])

ParserIdle ==
    /\ pieces = <<>>
    /\ targets = <<>>
    /\ parse_result = NotCalled

ParserInit ==
    /\ pieces \in SeqsOf(PieceSet, 0, MaxPieces)
    /\ targets = TextOf(pieces)
    /\ parse_result = NotCalled

\* One call of parse_targets on the input.
CallParseTargets ==
    /\ parse_result = NotCalled
    /\ parse_result' = parse_targets(targets)
    /\ UNCHANGED <<pieces, targets>>
    /\ UNCHANGED <<pipeVars, themeVars, stampVars>>


\* ---------------------------------------------------------------- themes
\* A Python dict is a function from its keys; a colour is a string, written
\* as its characters, and None is its own value.
None == <<"None">>
Hash(v) == <<"#">> \o v
EmptyDict == [k \in {} |-> <<>>]

\* d.get(k, default)
Get(d, k, default) == IF k \in DOMAIN d THEN d[k] ELSE default

RequiredFields == {"title_color", "icon_color", "text_color", "bg_color",
                   "background_color"}
ThemeFields == RequiredFields \cup {"border_color"}

\* Lines 12-39: a Theme object, its attributes by name.  The class defines
\* __init__ alone: it has no _asdict method.
Theme(title_color, icon_color, text_color, bg_color, background_color, border_color) ==
    [title_color |-> title_color, icon_color |-> icon_color,
     text_color |-> text_color, bg_color |-> bg_color,
     background_color |-> background_color, border_color |-> border_color]

\* The methods the class body defines.
ThemeMethods == {"__init__"}

\* Theme(**v): every required keyword present, no unknown keyword.
CanConstruct(v) == RequiredFields \subseteq DOMAIN v /\ DOMAIN v \subseteq ThemeFields

FromKeywords(v) ==
    Theme(v["title_color"], v["icon_color"], v["text_color"], v["bg_color"],
          v["background_color"], Get(v, "border_color", None))

\* The remote index.js: whether it lacks the anchors "themes = {" and "};",
\* and the theme blocks between them, each a name and its key: value lines.
Block(name, attrs) == [name |-> name, attrs |-> attrs]

DarkBlock ==
    Block("dark", [k \in {"title_color", "icon_color", "text_color", "bg_color"} |->
                      CASE k = "title_color" -> <<"f", "f", "f">>
                        [] k = "icon_color" -> <<"7", "9", "f">>
                        [] k = "text_color" -> <<"9", "f", "9">>
                        [] OTHER -> <<"1", "5", "1">>])

BorderBlock ==
    Block("radical", [k \in {"title_color", "bg_color", "border_color"} |->
                      CASE k = "title_color" -> <<"f", "e", "4">>
                        [] k = "bg_color" -> <<"1", "4", "1">>
                        [] OTHER -> <<"e", "4", "e">>])

\* A second definition of "dark" further down the file.
DarkAgainBlock ==
    Block("dark", [k \in {"title_color"} |-> <<"0", "0", "0">>])

ThemeBlocks == {DarkBlock, BorderBlock, DarkAgainBlock}

Response(status, unanchored, blocks) ==
    [status |-> status, unanchored |-> unanchored, blocks |-> blocks]

Responses ==
    {Response(st, a, b) : st \in {200, 404}, a \in BOOLEAN, b \in SeqsOf(ThemeBlocks, 0, 2)}

\* Lines 80-111: one block's attributes, each value prefixed with "#", to a
\* Theme; bg_color is used as background_color too.
ParseBlock(block) ==
    LET attrs == [k \in DOMAIN block.attrs |-> Hash(block.attrs[k])]
        bg_color == Get(attrs, "bg_color", <<>>)
    IN Theme(Get(attrs, "title_color", <<>>), Get(attrs, "icon_color", <<>>),
             Get(attrs, "text_color", <<>>), bg_color, bg_color,
             Get(attrs, "border_color", None))

\* The last block of a name.
LastNamed(blocks, name) ==
    blocks[CHOOSE i \in 1..Len(blocks) :
              /\ blocks[i].name = name
              /\ \A j \in (i + 1)..Len(blocks) : blocks[j].name # name]

\* Lines 63-113: result[theme_name] = theme_obj for every block in turn.
ParseThemes(blocks) ==
    [name \in {blocks[i].name : i \in 1..Len(blocks)} |-> ParseBlock(LastNamed(blocks, name))]

\* themes.json: absent, or a file with its text; the text is a JSON object
\* (theme name -> field -> value) or not JSON at all (an empty file).
Absent == [exists |-> FALSE, json |-> FALSE, data |-> EmptyDict]
EmptyFile == [exists |-> TRUE, json |-> FALSE, data |-> EmptyDict]
JsonFile(data) == [exists |-> TRUE, json |-> TRUE, data |-> data]

\* A themes.json as shipped beside the script.
ShippedCache ==
    JsonFile([name \in {"default"} |->
                 [k \in ThemeFields |->
                     IF k = "border_color" THEN None ELSE Hash(<<"2", "f", "8">>)]])

\* What one get_themes call did: the path taken, the status received, the
\* themes parsed from the response, whether it raised, what it returned and
\* the cache file it left.
Call(path, status, resolved, error, themes, after) ==
    [path |-> path, status |-> status, resolved |-> resolved, error |-> error,
     themes |-> themes, cache_after |-> after]

\* Lines 46-50: the cache exists: json.load and Theme(**v) per entry.
LoadCache ==
    IF ~cache_file.json
    THEN Call("hit", 0, EmptyDict, "JSONDecodeError", EmptyDict, cache_file)
    ELSE IF \E k \in DOMAIN cache_file.data : ~CanConstruct(cache_file.data[k])
    THEN Call("hit", 0, EmptyDict, "TypeError", EmptyDict, cache_file)
    ELSE Call("hit", 0, EmptyDict, "",
              [k \in DOMAIN cache_file.data |-> FromKeywords(cache_file.data[k])],
              cache_file)

\* Lines 52-121: the remote fetch, the parse, and the cache write: open(...,
\* "w") creates the file empty, then v._asdict() is evaluated for every
\* theme before json.dump writes anything.
FetchAndCache(resp) ==
    IF resp.status # 200
    THEN Call("miss", resp.status, EmptyDict, "fetch failed", EmptyDict, cache_file)
    ELSE IF resp.unanchored
    THEN Call("miss", resp.status, EmptyDict, "IndexError", EmptyDict, cache_file)
    ELSE LET result == ParseThemes(resp.blocks)
         IN IF DOMAIN result # {} /\ "_asdict" \notin ThemeMethods
            THEN Call("miss", resp.status, result, "AttributeError", EmptyDict, EmptyFile)
            ELSE Call("miss", resp.status, result, "", result,
                      JsonFile([k \in DOMAIN result |-> result[k]]))

ThemesIdle ==
    /\ cache_file = Absent
    /\ fetches = 0
    /\ calls = <<>>

ThemesInit ==
    /\ cache_file \in {Absent, ShippedCache}
    /\ fetches = 0
    /\ calls = <<>>

\* One call of get_themes, served from the cache file.
GetThemesCached ==
    /\ Len(calls) < MaxCalls
    /\ cache_file.exists
    /\ calls' = Append(calls, LoadCache)
    /\ UNCHANGED <<cache_file, fetches>>
    /\ UNCHANGED <<pipeVars, parserVars, stampVars>>

\* One call of get_themes with no cache file: requests.get is made.
GetThemesRemote ==
    /\ Len(calls) < MaxCalls
    /\ ~cache_file.exists
    /\ \E resp \in Responses :
          LET c == FetchAndCache(resp)
          IN /\ calls' = Append(calls, c)
             /\ cache_file' = c.cache_after
    /\ fetches' = fetches + 1
    /\ UNCHANGED <<pipeVars, parserVars, stampVars>>


\* ------------------------------------------------- get_month_year alone
NotConverted == [called |-> FALSE, result |-> ParseError]

StampIdle ==
    /\ date_str = StampZ
    /\ month_year = NotConverted

StampInit ==
    /\ date_str \in AllStamps
    /\ month_year = NotConverted

\* One call of get_month_year on the string.
CallGetMonthYear ==
    /\ ~month_year.called
    /\ month_year' = [called |-> TRUE, result |-> get_month_year(date_str)]
    /\ UNCHANGED date_str
    /\ UNCHANGED <<pipeVars, parserVars, themeVars>>

\* -------------------------------------------------------- specifications
vars == <<pipeVars, parserVars, themeVars, stampVars>>

Init == PipeInit /\ ParserIdle /\ ThemesIdle /\ StampIdle

Next ==
    \/ StartTarget
    \/ SendRequest
    \/ ServerPage
    \/ ServerFails
    \/ ConvertDates
    \/ Aggregate
    \/ RenderAndSave
    \/ RenderFails
    \/ Finish

\* The run of the script over its targets, against a server that ends every
\* listing within MaxPages pages.
Spec == Init /\ [][Next]_vars

\* A server that never clears hasNextPage: status 200, no errors, no edges,
\* hasNextPage true and the endCursor it gave before.
ServerNeverClears ==
    /\ pc = "await"
    /\ TakePage(<<>>, TRUE, end_cursor)

LiveNext == Next \/ ServerNeverClears

\* The same run against any server; the script keeps running and every
\* request is answered.
LiveSpec == Init /\ [][LiveNext]_vars /\ WF_vars(LiveNext)

\* The aggregation on any two month-key lists.
AggInit ==
    /\ parsed_targets \in SeqsOf(Targets, 1, 1)
    /\ ti = 1
    /\ pc = "aggregate"
    /\ token = TRUE
    /\ phase = "reviewed"
    /\ cursor_var = Null
    /\ prs = <<>>
    /\ has_next_page = FALSE
    /\ end_cursor = Null
    /\ authored_dates \in SeqsOf(Years \X Months, 0, MaxDates)
    /\ reviewed_dates \in SeqsOf(Years \X Months, 0, MaxDates)
    /\ merged = <<>>
    /\ saved = {}
    /\ reported = <<>>
    /\ sent = <<>>
    /\ recv = <<>>
    /\ attempted = {1}
    /\ rendered = {}
    /\ ParserIdle /\ ThemesIdle /\ StampIdle

AggNext == Aggregate \/ RenderAndSave \/ RenderFails \/ Finish

AggSpec == AggInit /\ [][AggNext]_vars

ParserNext == CallParseTargets

ParserSpecInit == PipeIdle /\ ParserInit /\ ThemesIdle /\ StampIdle

ParserSpec == ParserSpecInit /\ [][ParserNext]_vars

ThemeNext == GetThemesCached \/ GetThemesRemote

ThemeSpecInit == PipeIdle /\ ParserIdle /\ ThemesInit /\ StampIdle

ThemeSpec == ThemeSpecInit /\ [][ThemeNext]_vars

StampNext == CallGetMonthYear

StampSpecInit == PipeIdle /\ ParserIdle /\ ThemesIdle /\ StampInit

StampSpec == StampSpecInit /\ [][StampNext]_vars


\* ---------------------------------------------------------------- claims
PageNodes == [i \in 1..Len(recv) |-> recv[i].nodes]

\* C1: when a fetch returns, it has made exactly one request per page it was
\* served, the page with hasNextPage false is the last one and the only one,
\* and the list returned is the pages' nodes in the order served, so its
\* length is the sum of the page sizes.
FetchReturnsEveryPageInOrder ==
    pc = "fetched" =>
        /\ Len(sent) = Len(recv)
        /\ \A i \in 1..Len(recv) :
              /\ recv[i].kind = "page"
              /\ recv[i].hasNextPage <=> i < Len(recv)
        /\ prs = Flatten(PageNodes)

\* A fetch that returned after two pages of different sizes.
FetchOfTwoPagesReturned ==
    /\ pc = "fetched"
    /\ Len(recv) = 2
    /\ Len(recv[1].nodes) = 2
    /\ Len(recv[2].nodes) = 1
    /\ recv[1].nodes[1] # recv[2].nodes[1]

MergedMonths == {strftime_month(merged[i].month) : i \in 1..Len(merged)}

\* C2: the merged series holds each month of the union of the two key sets
\* exactly once, in ascending calendar order, each with the number of
\* authored and of reviewed records of that month (0 where a side has none).
MergedSeriesIsTheSortedUnion ==
    pc = "render" =>
        LET union == Range(authored_dates) \cup Range(reviewed_dates)
        IN /\ Len(merged) = Cardinality(union)
           /\ MergedMonths = union
           /\ \A i, j \in 1..Len(merged) :
                 i < j => KeyLess(strftime_month(merged[i].month),
                                  strftime_month(merged[j].month))
           /\ \A i \in 1..Len(merged) :
                 /\ merged[i].authored_count =
                        CountOf(authored_dates, strftime_month(merged[i].month))
                 /\ merged[i].reviewed_count =
                        CountOf(reviewed_dates, strftime_month(merged[i].month))

\* Two authored months met in descending order and a reviewed month between
\* them that the authored side lacks.
MergedThreeMonthsOutOfOrder ==
    /\ pc = "render"
    /\ Len(merged) = 3
    /\ Len(authored_dates) = 2
    /\ Len(reviewed_dates) = 1
    /\ KeyLess(authored_dates[2], reviewed_dates[1])
    /\ KeyLess(reviewed_dates[1], authored_dates[1])

\* C3: when a run that had its token has ended, every target of the parsed list was attempted,
\* and every failure was reported with its target's username and owner/repo.
EveryTargetAttempted ==
    (pc \in {"done", "exited"} /\ token) =>
        /\ attempted = 1..Len(parsed_targets)
        /\ \A i \in 1..Len(reported) :
              \E k \in attempted :
                 /\ reported[i].username = parsed_targets[k].username
                 /\ reported[i].repo_owner = parsed_targets[k].repo_owner
                 /\ reported[i].repo_name = parsed_targets[k].repo_name

Fetching == pc \in {"request", "await"}

\* C4: against every server, a fetch that is running eventually stops, by
\* returning or by raising.
FetchEventuallyStops == Fetching ~> ~Fetching

\* C5: after a get_themes call that took the cache-miss path and received
\* status 200, the call has returned, the cache file holds the themes it
\* resolved, and every later call is served from the cache, without a remote
\* fetch, with the same palettes field for field.
ThemeCacheRoundTrip ==
    \A i \in 1..Len(calls) :
        (calls[i].path = "miss" /\ calls[i].status = 200) =>
            /\ calls[i].error = ""
            /\ calls[i].cache_after =
                   JsonFile([k \in DOMAIN calls[i].resolved |-> calls[i].resolved[k]])
            /\ \A j \in (i + 1)..Len(calls) :
                  /\ calls[j].path = "hit"
                  /\ calls[j].error = ""
                  /\ calls[j].themes = calls[i].resolved

\* C6: get_month_year gives the month key of the year and month written for
\* the offset form (either sign) and for the Z form, and a parse error for
\* every other form.
MonthKeyOfBothFormsOnly ==
    month_year.called =>
        month_year.result =
            IF IsOffsetForm(date_str) \/ IsZForm(date_str)
            THEN MonthKey(date_str.y, date_str.m)
            ELSE ParseError


\* The pieces that are not separators.
RECURSIVE NonSeparators(_)
NonSeparators(ps) ==
    IF ps = <<>> THEN <<>>
    ELSE IF Head(ps).kind = "sep" THEN NonSeparators(Tail(ps))
    ELSE <<Head(ps)>> \o NonSeparators(Tail(ps))

\* Descriptors with three non-empty fields, at least one, each set apart
\* from the next by a separator.
WellFormedInput(ps) ==
    /\ \E i \in 1..Len(ps) : ps[i].kind = "desc"
    /\ \A i \in 1..Len(ps) :
          /\ ps[i].kind # "odd"
          /\ ps[i].kind = "desc" =>
                /\ ps[i].username # <<>>
                /\ ps[i].repo_owner # <<>>
                /\ ps[i].repo_name # <<>>
                /\ i < Len(ps) => ps[i + 1].kind = "sep"

TriplesOf(ps) ==
    LET ds == NonSeparators(ps)
    IN [i \in 1..Len(ds) |-> <<ds[i].username, ds[i].repo_owner, ds[i].repo_name>>]

\* C7: for an input of well-formed descriptors separated by spaces, commas
\* or both, parse_targets returns one triple per descriptor, in input order,
\* each field the text it was written from, duplicates kept.
ParseReturnsEveryDescriptor ==
    (parse_result # NotCalled /\ WellFormedInput(pieces)) =>
        parse_result = Returned(TriplesOf(pieces))

\* The same descriptor, with capitals, a dot, a hyphen and an underscore,
\* given twice with a comma between, and returned twice.
ParsedDuplicateDescriptors ==
    /\ parse_result # NotCalled
    /\ WellFormedInput(pieces)
    /\ Len(pieces) = 3
    /\ pieces[2].text = <<",">>
    /\ pieces[1] = Descriptor(<<"U", ".", "n">>, <<"o", "-", "g">>, <<"R", "_", "n">>)
    /\ pieces[3] = pieces[1]
    /\ Len(parse_result.value) = 2
    /\ parse_result.value[1] = parse_result.value[2]

RECURSIVE TokensFrom(_, _)
\* The texts between the separators: runs of pieces written without one.
TokensFrom(ps, cur) ==
    IF ps = <<>> THEN (IF cur = <<>> THEN <<>> ELSE <<cur>>)
    ELSE IF Head(ps).kind = "sep"
         THEN (IF cur = <<>> THEN <<>> ELSE <<cur>>) \o TokensFrom(Tail(ps), <<>>)
         ELSE TokensFrom(Tail(ps), cur \o Head(ps).text)

Tokens == TokensFrom(pieces, <<>>)

BeforeAt(t) == SubSeq(t, 1, IndexOf(t, "@") - 1)
AfterAt(t) == SubSeq(t, IndexOf(t, "@") + 1, Len(t))

\* No "@", more than one "@", an empty username, a repo part without "/" or
\* with more than one, an empty owner or an empty repo name.
Malformed(t) ==
    \/ CountChar(t, "@") # 1
    \/ BeforeAt(t) = <<>>
    \/ CountChar(AfterAt(t), "/") # 1
    \/ IndexOf(AfterAt(t), "/") = 1
    \/ IndexOf(AfterAt(t), "/") = Len(AfterAt(t))

FirstMalformed ==
    Tokens[CHOOSE i \in 1..Len(Tokens) :
              Malformed(Tokens[i]) /\ \A j \in 1..(i - 1) : ~Malformed(Tokens[j])]

\* C8: for an input with a malformed descriptor, parse_targets returns no
\* list: it raises a ValueError whose message says "Invalid repository
\* format" or "Invalid target format" and names the offending descriptor or
\* its repo part, never an unpack error.
MalformedDescriptorRaisesFormatError ==
    (parse_result # NotCalled /\ \E i \in 1..Len(Tokens) : Malformed(Tokens[i])) =>
        /\ parse_result.raised
        /\ parse_result.value = <<>>
        /\ parse_result.exc.head \in {InvalidRepo, InvalidTarget}
        /\ CountChar(FirstMalformed, "@") = 1
              => parse_result.exc.text \in {FirstMalformed, AfterAt(FirstMalformed)}
        /\ CountChar(FirstMalformed, "@") # 1
              => parse_result.exc.text = FirstMalformed

\* A well-formed descriptor followed by one whose repo part has no "/".
RaisedOnRepoWithoutSlash ==
    /\ parse_result # NotCalled
    /\ Len(Tokens) = 2
    /\ ~Malformed(Tokens[1])
    /\ Tokens[2] = <<"a", "@", "o", "r">>
    /\ parse_result.raised
    /\ parse_result.exc.text = <<"o", "r">>

\* C9: in every fetch the first request carries the null cursor and each
\* later request the endCursor of the response just before it; this holds
\* anew for the reviewed fetch and for the fetches of later targets.
CursorFollowsPrecedingResponse ==
    /\ Len(sent) >= 1 => sent[1] = Null
    /\ \A i \in 2..Len(sent) : sent[i] = recv[i - 1].endCursor
    /\ pc = "await" => cursor_var = sent[Len(sent)]
    /\ Len(sent) \in {Len(recv), Len(recv) + 1}

\* The second request of the reviewed fetch of the second target, carrying
\* the cursor the first response gave.
SecondTargetReviewedSecondRequest ==
    /\ ti = 2
    /\ phase = "reviewed"
    /\ pc = "await"
    /\ Len(sent) = 2
    /\ sent[2] # Null
    /\ cursor_var = sent[2]

LastResponseFailed ==
    recv # <<>> /\ recv[Len(recv)].kind \in {"status", "errors"}

\* C10: once a request of a fetch is answered with a non-success status or
\* with errors in the payload, the fetch has raised: no record list is
\* returned, no further request is made, the target's failure is reported and
\* nothing is aggregated or saved for that target.
FailedRequestAbandonsTarget ==
    LastResponseFailed =>
        /\ pc = "exited"
        /\ prs = <<>>
        /\ Len(sent) = Len(recv)
        /\ merged = <<>>
        /\ ti \notin rendered
        /\ reported # <<>>
        /\ reported[Len(reported)].error = recv[Len(recv)].kind
        /\ reported[Len(reported)].username = CurrentTarget.username

\* A payload with errors on the second page, after a first page of records.
FailedOnSecondPage ==
    /\ Len(recv) = 2
    /\ recv[1].nodes # <<>>
    /\ recv[2].kind = "errors"
    /\ pc = "exited"

\* The worked example of the aggregation: authored records in 2024-01 and
\* 2024-03, in either order, and one reviewed record in 2024-02.
GapExampleInput ==
    /\ Len(authored_dates) = 2
    /\ Range(authored_dates) = {<<2024, 1>>, <<2024, 3>>}
    /\ reviewed_dates = << <<2024, 2>> >>

\* The (month, authored, reviewed) rows of the merged series.
MergedRows ==
    [i \in 1..Len(merged) |->
        <<strftime_month(merged[i].month), merged[i].authored_count,
          merged[i].reviewed_count>>]

\* C11 as written: on the worked example the merged series is 2024-01,
\* 2024-02, 2024-03 with (authored, reviewed) counts (1,0), (0,1), (0,1).
GapExampleCountsAsWritten ==
    (pc = "render" /\ GapExampleInput) =>
        MergedRows = << <<<<2024, 1>>, 1, 0>>, <<<<2024, 2>>, 0, 1>>,
                        <<<<2024, 3>>, 0, 1>> >>

\* C11, amended: on the worked example the merged series has exactly the three
\* entries 2024-01, 2024-02, 2024-03 in that order, with (authored, reviewed)
\* counts (1,0), (0,1), (1,0): 2024-03 is an authored month, not a reviewed one.
GapExampleIsGapFilled ==
    (pc = "render" /\ GapExampleInput) =>
        MergedRows = << <<<<2024, 1>>, 1, 0>>, <<<<2024, 2>>, 0, 1>>,
                        <<<<2024, 3>>, 1, 0>> >>

\* The worked example has been aggregated, its authored months met latest
\* first.
GapExampleAggregated ==
    /\ pc = "render"
    /\ GapExampleInput
    /\ authored_dates[1] = <<2024, 3>>
    /\ Len(merged) = 3

\* The input holds no descriptor: it is empty or made of separators only.
HoldsNoDescriptor(ps) == \A i \in 1..Len(ps) : ps[i].kind = "sep"

\* C12: parse_targets never returns an empty list: an input that holds no
\* descriptor (empty, whitespace only, or separators only such as "," or
\* " , ") raises the 'Empty targets string' ValueError, and every successful
\* return holds at least one triple.
ParseNeverReturnsEmptyList ==
    parse_result # NotCalled =>
        /\ HoldsNoDescriptor(pieces) =>
              /\ parse_result.raised
              /\ parse_result.exc.head = EmptyTargets
        /\ ~parse_result.raised => parse_result.value # <<>>

====
